---- MODULE Spec2Model ----
(***************************************************************************)
(* TrainableModel of droid_lm/ml_training/trainable_model_gen.py: a        *)
(* four-layer feed-forward network (102 -> 64 -> 64 -> 32 -> 2) with eight *)
(* parameter tensors, a forward pass, a hand-written SGD training step     *)
(* (train), an inference entry point (infer) and a parameter-serialization *)
(* entry point (save).                                                     *)
(*                                                                         *)
(* Numbers.  float32 values are modelled on a fixed-point grid: the        *)
(* integer v stands for the real number v / Scale.  Every product is       *)
(* rounded to the nearest grid value, as a float operation rounds to the   *)
(* nearest representable value.  The one NaN the operations below can      *)
(* produce from grid values, the mean of an empty tensor, is the loss      *)
(* record with nan = TRUE.                                                  *)
(***************************************************************************)
EXTENDS Integers, Sequences, FiniteSets, TLC

VARIABLES
    self,      \* the TrainableModel instance: w1, b1, ..., w4, b4, learning_rate
    call,      \* the last call made on self: its entry point and arguments
    ret,       \* what that call returned, or the error it raised
    updates,   \* how many train calls have changed a parameter so far
    peer,      \* a second TrainableModel instance, where the host builds two
    peerRet,   \* what the last call on peer returned
    trainer,   \* a thread inside train: its position, gradients and result
    saver      \* a thread inside save: its position and the values read

vars == <<self, call, ret, updates, peer, peerRet, trainer, saver>>

\* ------------------------------------------------------------ constants
FEATURE_DIM == 34
WINDOW_SIZE == 3
INPUT_DIM == FEATURE_DIM * WINDOW_SIZE
OUTPUT_DIM == 2
\* The hidden widths written in __init__.
HIDDEN1 == 64
HIDDEN2 == 64
HIDDEN3 == 32

\* The resolution of the number grid: the real number 1.0 is Scale.
Scale == 10000
\* self.learning_rate = 0.01
LEARNING_RATE == Scale \div 100

\* The most train calls that change a parameter in one behaviour.
MaxTrain == 3

\* ------------------------------------------------------------ arithmetic
\* a / b rounded to the nearest integer (b > 0).
RoundDiv(a, b) == (2 * a + b) \div (2 * b)

\* The product of two grid values, rounded to the grid.
Mul(a, b) == (a * b + (Scale \div 2)) \div Scale

RECURSIVE SumRange(_, _, _)
\* f[lo] + ... + f[hi], summed by halves.
SumRange(f, lo, hi) ==
    IF lo > hi THEN 0
    ELSE IF lo = hi THEN f[lo]
    ELSE LET mid == (lo + hi) \div 2
         IN  SumRange(f, lo, mid) + SumRange(f, mid + 1, hi)

\* The function f with its values computed once (f itself, as a value).
Force(f) == IF f = <<>> THEN f ELSE f

\* A tensor carries its shape, as a tf.Tensor does: a batch of no rows still
\* has a column count.  A tensor of shape [n]:
Vec(n, val) == [shape |-> <<n>>, v |-> Force([j \in 1..n |-> val[j]])]

\* A tensor of shape [r, c].
Mat(r, c, val) ==
    [shape |-> <<r, c>>,
     v |-> Force([i \in 1..r |-> Force([j \in 1..c |-> val[i][j]])])]

Rows(t) == t.shape[1]
Cols(t) == t.shape[2]

RECURSIVE DotCol(_, _, _, _, _)
\* row[lo] * wv[lo][j] + ... + row[hi] * wv[hi][j], summed by halves.
DotCol(row, wv, j, lo, hi) ==
    IF hi - lo >= 3
    THEN DotCol(row, wv, j, lo, (lo + hi) \div 2)
         + DotCol(row, wv, j, ((lo + hi) \div 2) + 1, hi)
    ELSE IF hi - lo = 2
    THEN ((row[lo] * wv[lo][j] + (Scale \div 2)) \div Scale)
         + ((row[lo + 1] * wv[lo + 1][j] + (Scale \div 2)) \div Scale)
         + ((row[hi] * wv[hi][j] + (Scale \div 2)) \div Scale)
    ELSE IF hi - lo = 1
    THEN ((row[lo] * wv[lo][j] + (Scale \div 2)) \div Scale)
         + ((row[hi] * wv[hi][j] + (Scale \div 2)) \div Scale)
    ELSE IF hi = lo THEN (row[lo] * wv[lo][j] + (Scale \div 2)) \div Scale
    ELSE 0

RECURSIVE DotRow(_, _, _, _)
\* g[lo] * wrow[lo] + ... + g[hi] * wrow[hi], summed by halves.
DotRow(g, wrow, lo, hi) ==
    IF hi - lo >= 3
    THEN DotRow(g, wrow, lo, (lo + hi) \div 2)
         + DotRow(g, wrow, ((lo + hi) \div 2) + 1, hi)
    ELSE IF hi - lo = 2
    THEN ((g[lo] * wrow[lo] + (Scale \div 2)) \div Scale)
         + ((g[lo + 1] * wrow[lo + 1] + (Scale \div 2)) \div Scale)
         + ((g[hi] * wrow[hi] + (Scale \div 2)) \div Scale)
    ELSE IF hi - lo = 1
    THEN ((g[lo] * wrow[lo] + (Scale \div 2)) \div Scale)
         + ((g[hi] * wrow[hi] + (Scale \div 2)) \div Scale)
    ELSE IF hi = lo THEN (g[lo] * wrow[lo] + (Scale \div 2)) \div Scale
    ELSE 0

RECURSIVE DotBatch(_, _, _, _, _, _)
\* av[lo][k] * zv[lo][j] + ... + av[hi][k] * zv[hi][j]
DotBatch(av, zv, k, j, lo, hi) ==
    IF lo > hi THEN 0
    ELSE ((av[lo][k] * zv[lo][j] + (Scale \div 2)) \div Scale)
         + DotBatch(av, zv, k, j, lo + 1, hi)

\* tf.matmul(a, w) + b: [n, k] x [k, m] -> [n, m], the bias broadcast over
\* the rows.
Dense(a, w, b) ==
    LET av == a.v
        wv == w.v
        bv == b.v
        k == Cols(a)
    IN  Mat(Rows(a), Cols(w), [i \in 1..Rows(a) |-> [j \in 1..Cols(w) |->
                 DotCol(av[i], wv, j, 1, k) + bv[j]]])

\* tf.nn.relu
Relu(t) ==
    LET tv == t.v
    IN  Mat(Rows(t), Cols(t), [i \in 1..Rows(t) |-> [j \in 1..Cols(t) |->
                 IF tv[i][j] > 0 THEN tv[i][j] ELSE 0]])

\* float32 sigmoid returns exactly 1.0 from about 17.33 on (1 - sigmoid(z)
\* is then below half the spacing of the floats under 1.0), and exactly 0.0
\* once exp(-z) overflows (z below about -104).
SIGMOID_ONE_FROM == 18 * Scale
SIGMOID_ZERO_UPTO == 0 - 104 * Scale

\* sigmoid at 0, 1, ..., 8 on the grid.
SigmoidTable == <<5000, 7311, 8808, 9526, 9820, 9933, 9975, 9991, 9997>>

\* sigmoid of z >= 0 below saturation: the table, linear in between, and
\* strictly below 1.0.
SigmoidUpper(z) ==
    LET k == z \div Scale
        lo == SigmoidTable[k + 1]
        hi == SigmoidTable[k + 2]
        v == lo + RoundDiv((hi - lo) * (z - k * Scale), Scale)
    IN  IF k >= 8 THEN Scale - 1
        ELSE IF v > Scale - 1 THEN Scale - 1 ELSE v

\* tf.nn.sigmoid of one value.
Sigmoid(z) ==
    IF z >= SIGMOID_ONE_FROM THEN Scale
    ELSE IF z <= SIGMOID_ZERO_UPTO THEN 0
    ELSE IF z >= 0 THEN SigmoidUpper(z)
    ELSE Scale - SigmoidUpper(0 - z)

\* tf.nn.sigmoid of a tensor of shape [n, m].
SigmoidOf(t) ==
    LET tv == t.v
    IN  Mat(Rows(t), Cols(t), [i \in 1..Rows(t) |-> [j \in 1..Cols(t) |->
                 Sigmoid(tv[i][j])]])

\* ------------------------------------------------------------ __init__
\* One draw of tf.random.normal([r, c], stddev=0.1): the entries are spread
\* over -0.1, -0.05, 0, 0.05, 0.1, and seed picks the draw.
RandomNormal(r, c, seed) ==
    Mat(r, c, [i \in 1..r |-> [j \in 1..c |->
                 (((i + 4 * j + 3 * i * j + seed) % 5) - 2) * (Scale \div 20)]])

\* tf.zeros([n])
Zeros(n) == Vec(n, [j \in 1..n |-> 0])

\* TrainableModel(): the eight variables and the learning rate.
Construct(seed) ==
    [w1 |-> RandomNormal(INPUT_DIM, HIDDEN1, seed),
     b1 |-> Zeros(HIDDEN1),
     w2 |-> RandomNormal(HIDDEN1, HIDDEN2, seed + 1),
     b2 |-> Zeros(HIDDEN2),
     w3 |-> RandomNormal(HIDDEN2, HIDDEN3, seed + 2),
     b3 |-> Zeros(HIDDEN3),
     w4 |-> RandomNormal(HIDDEN3, OUTPUT_DIM, seed + 3),
     b4 |-> Zeros(OUTPUT_DIM),
     learning_rate |-> LEARNING_RATE]

\* ------------------------------------------------------------ __call__
\* The forward pass with its intermediate activations, as the gradient tape
\* records them; one operator per layer of __call__.
Layer4(m, x, h1, h2, h3) ==
    [x |-> x, h1 |-> h1, h2 |-> h2, h3 |-> h3,
     out |-> SigmoidOf(Dense(h3, m.w4, m.b4))]

Layer3(m, x, h1, h2) == Layer4(m, x, h1, h2, Relu(Dense(h2, m.w3, m.b3)))

Layer2(m, x, h1) == Layer3(m, x, h1, Relu(Dense(h1, m.w2, m.b2)))

ForwardTape(m, x) == Layer2(m, x, Relu(Dense(x, m.w1, m.b1)))

\* self(x)
Forward(m, x) == ForwardTape(m, x).out

\* ------------------------------------------------------------ train
\* A tf.function's input_signature [None, dim]: any number of rows, exactly
\* dim columns.  A call with another tensor is refused before the body runs.
MatchesSignature(t, dim) == Len(t.shape) = 2 /\ Cols(t) = dim

\* One dimension of y - prediction under broadcasting: equal sizes, or a
\* size of 1 stretched to the other; -1 when the sizes are incompatible.
BroadcastDim(a, b) ==
    IF a = b THEN a
    ELSE IF a = 1 THEN b
    ELSE IF b = 1 THEN a
    ELSE 0 - 1

\* Entry (i, j) of t under broadcasting: a dimension of size 1 is repeated.
BAt(t, i, j) ==
    t.v[IF Rows(t) = 1 THEN 1 ELSE i][IF Cols(t) = 1 THEN 1 ELSE j]

\* y - prediction, broadcast to shape [r, c].
Residual(y, prediction, r, c) ==
    Mat(r, c, [i \in 1..r |-> [j \in 1..c |->
                 BAt(y, i, j) - BAt(prediction, i, j)]])

NaN == [nan |-> TRUE, val |-> 0]
Num(v) == [nan |-> FALSE, val |-> v]

\* tf.reduce_mean(tf.square(d)): the mean of no entries is NaN.
MeanSquare(d) ==
    LET dv == d.v
        n == Rows(d) * Cols(d)
        rowsum == [i \in 1..Rows(d) |->
                     SumRange([j \in 1..Cols(d) |-> Mul(dv[i][j], dv[i][j])],
                              1, Cols(d))]
    IN  IF n = 0 THEN NaN ELSE Num(RoundDiv(SumRange(rowsum, 1, Rows(d)), n))

\* The gradient of the loss with respect to prediction, by the gradients of
\* reduce_mean (1 / count for every entry), square (2 d) and subtraction
\* (negated, and summed over the rows a one-row prediction was stretched to).
SquareMeanGrad(d) ==
    LET dv == d.v
    IN  Mat(Rows(d), Cols(d), [i \in 1..Rows(d) |-> [j \in 1..Cols(d) |->
                 Mul(RoundDiv(Scale, Rows(d) * Cols(d)), 2 * dv[i][j])]])

NegatedUnbroadcast(dd, n) ==
    LET dv == dd.v
        r == Rows(dd)
    IN  IF n = r
        THEN Mat(n, Cols(dd), [i \in 1..n |-> [j \in 1..Cols(dd) |->
                 0 - dv[i][j]]])
        ELSE Mat(n, Cols(dd), [i \in 1..n |-> [j \in 1..Cols(dd) |->
                 0 - SumRange([k \in 1..r |-> dv[k][j]], 1, r)]])

PredictionGrad(d, n) == NegatedUnbroadcast(SquareMeanGrad(d), n)

\* The gradient through the sigmoid: dy * y * (1 - y).
SigmoidGrad(dy, y) ==
    LET dv == dy.v
        yv == y.v
    IN  Mat(Rows(y), Cols(y), [i \in 1..Rows(y) |-> [j \in 1..Cols(y) |->
                 Mul(dv[i][j], Mul(yv[i][j], Scale - yv[i][j]))]])

\* The gradient through relu: dy where the activation is positive.
ReluGrad(dy, h) ==
    LET dv == dy.v
        hv == h.v
    IN  Mat(Rows(h), Cols(h), [i \in 1..Rows(h) |-> [j \in 1..Cols(h) |->
                 IF hv[i][j] > 0 THEN dv[i][j] ELSE 0]])

\* The gradients of a.w + b given the gradient dz of its result:
\* dw = transpose(a).dz, db = the column sums of dz, da = dz.transpose(w).
WeightGrad(a, dz) ==
    LET av == a.v
        zv == dz.v
        n == Rows(a)
    IN  Mat(Cols(a), Cols(dz), [k \in 1..Cols(a) |-> [j \in 1..Cols(dz) |->
                 DotBatch(av, zv, k, j, 1, n)]])

BiasGrad(dz) ==
    LET zv == dz.v
        n == Rows(dz)
    IN  Vec(Cols(dz), [j \in 1..Cols(dz) |-> SumRange([i \in 1..n |-> zv[i][j]], 1, n)])

InputGrad(dz, w) ==
    LET zv == dz.v
        wv == w.v
        m == Cols(w)
    IN  Mat(Rows(dz), Rows(w), [i \in 1..Rows(dz) |-> [k \in 1..Rows(w) |->
                 DotRow(zv[i], wv[k], 1, m)]])

\* vars_to_train, in the order train lists them.
vars_to_train == <<"w1", "b1", "w2", "b2", "w3", "b3", "w4", "b4">>

\* Backpropagation, one operator per layer: dzN is the gradient of the loss
\* with respect to layer N's affine output.
Backward1(m, tape, dz4, dz3, dz2, dz1) ==
    <<WeightGrad(tape.x, dz1), BiasGrad(dz1),
      WeightGrad(tape.h1, dz2), BiasGrad(dz2),
      WeightGrad(tape.h2, dz3), BiasGrad(dz3),
      WeightGrad(tape.h3, dz4), BiasGrad(dz4)>>

Backward2(m, tape, dz4, dz3, dz2) ==
    Backward1(m, tape, dz4, dz3, dz2, ReluGrad(InputGrad(dz2, m.w2), tape.h1))

Backward3(m, tape, dz4, dz3) ==
    Backward2(m, tape, dz4, dz3, ReluGrad(InputGrad(dz3, m.w3), tape.h2))

Backward4(m, tape, dz4) ==
    Backward3(m, tape, dz4, ReluGrad(InputGrad(dz4, m.w4), tape.h3))

\* tape.gradient(loss, vars_to_train): the eight gradients, in the order of
\* vars_to_train, all computed from the parameters the tape recorded.
Gradients(m, tape, y, r, c) ==
    Backward4(m, tape,
              SigmoidGrad(PredictionGrad(Residual(y, tape.out, r, c),
                                         Rows(tape.out)), tape.out))

\* var.assign_sub(grad * rate)
AssignSub(var, grad, rate) ==
    LET vv == var.v
        gv == grad.v
    IN  IF Len(var.shape) = 1
        THEN Vec(var.shape[1], [j \in 1..var.shape[1] |-> vv[j] - Mul(gv[j], rate)])
        ELSE Mat(Rows(var), Cols(var), [i \in 1..Rows(var) |-> [j \in 1..Cols(var) |->
                 vv[i][j] - Mul(gv[i][j], rate)]])

Min(a, b) == IF a < b THEN a ELSE b

\* An update loop that stops after the pair at k: only one variable is
\* assigned.
UpdateLoopFirstPair(m, names, grads, k) ==
    [m EXCEPT ![names[k]] = AssignSub(@, grads[k], m.learning_rate)]

RECURSIVE UpdateLoop(_, _, _, _)
\* for var, grad in zip(names, grads): var.assign_sub(grad * learning_rate),
\* from the k-th pair on.
UpdateLoop(m, names, grads, k) ==
    IF k > Min(Len(names), Len(grads)) THEN m
    ELSE UpdateLoop([m EXCEPT ![names[k]] =
                        AssignSub(@, grads[k], m.learning_rate)],
                    names, grads, k + 1)

\* A call that raised: the instance is as it was.
Raised(m, error) == [self |-> m, ret |-> [status |-> error]]

\* A body of train that reports the prediction and the loss of the updated
\* parameters.
TrainBodyReportsAfter(m, tape, y) ==
    LET r == BroadcastDim(Rows(y), Rows(tape.out))
        c == BroadcastDim(Cols(y), Cols(tape.out))
        after == UpdateLoop(m, vars_to_train, Gradients(m, tape, y, r, c), 1)
    IN  IF r < 0 \/ c < 0
        THEN Raised(m, "ShapeError")
        ELSE [self |-> after,
              ret |-> [status |-> "ok",
                       value |-> [loss |-> MeanSquare(Residual(y,
                                             Forward(after, tape.x), r, c)),
                                  prediction |-> Forward(after, tape.x)]]]

\* The body of train, given the forward pass the tape recorded.  The
\* subtraction y - prediction raises when the two shapes do not broadcast.
TrainBody(m, tape, y) ==
    LET r == BroadcastDim(Rows(y), Rows(tape.out))
        c == BroadcastDim(Cols(y), Cols(tape.out))
    IN  IF r < 0 \/ c < 0
        THEN Raised(m, "ShapeError")
        ELSE [self |-> UpdateLoop(m, vars_to_train,
                                  Gradients(m, tape, y, r, c), 1),
              ret |-> [status |-> "ok",
                       value |-> [loss |-> MeanSquare(Residual(y, tape.out, r, c)),
                                  prediction |-> tape.out]]]

\* A train whose signature does not constrain the targets y.
TrainCallAnyTargets(m, x, y) ==
    IF ~MatchesSignature(x, INPUT_DIM)
    THEN Raised(m, "ShapeError")
    ELSE TrainBody(m, ForwardTape(m, x), y)

\* A train that follows a learning-rate schedule: every call that returns
\* lowers the rate by a tenth.
TrainCallWithSchedule(m, x, y) ==
    IF ~(MatchesSignature(x, INPUT_DIM) /\ MatchesSignature(y, OUTPUT_DIM))
    THEN Raised(m, "ShapeError")
    ELSE LET out == TrainBody(m, ForwardTape(m, x), y)
         IN  [self |-> [out.self EXCEPT !.learning_rate = (9 * @) \div 10],
              ret |-> out.ret]

\* train(x, y): the instance after the call and what the call returns.
TrainCall(m, x, y) ==
    IF ~(MatchesSignature(x, INPUT_DIM) /\ MatchesSignature(y, OUTPUT_DIM))
    THEN Raised(m, "ShapeError")
    ELSE TrainBody(m, ForwardTape(m, x), y)

\* ------------------------------------------------------------ infer, save
\* An infer that freezes the model it has served: it zeroes the learning
\* rate.
InferCallFreezes(m, x) ==
    IF ~MatchesSignature(x, INPUT_DIM)
    THEN Raised(m, "ShapeError")
    ELSE [self |-> [m EXCEPT !.learning_rate = 0],
          ret |-> [status |-> "ok", value |-> [output |-> Forward(m, x)]]]

\* infer(x): the instance after the call and what the call returns.
InferCall(m, x) ==
    IF ~MatchesSignature(x, INPUT_DIM)
    THEN Raised(m, "ShapeError")
    ELSE [self |-> m,
          ret |-> [status |-> "ok", value |-> [output |-> Forward(m, x)]]]

\* A save that returns the weight matrices only.
SaveCallWeightsOnly(m) ==
    [self |-> m,
     ret |-> [status |-> "ok",
              value |-> [w1 |-> m.w1, w2 |-> m.w2, w3 |-> m.w3, w4 |-> m.w4]]]

\* save(): the instance after the call and the mapping the call returns.
SaveCall(m) ==
    [self |-> m,
     ret |-> [status |-> "ok",
              value |-> [w1 |-> m.w1, b1 |-> m.b1, w2 |-> m.w2, b2 |-> m.b2,
                         w3 |-> m.w3, b3 |-> m.b3, w4 |-> m.w4, b4 |-> m.b4]]]

\* ------------------------------------------------------------ inputs
\* The initial draws of the weights.
Seeds == {1}

\* A batch of one day-window: two features of every three at 1.0.
XOne == Mat(1, INPUT_DIM, [i \in 1..1 |-> [j \in 1..INPUT_DIM |->
                 IF j % 3 = 0 THEN 0 ELSE Scale]])
\* A batch of one window that was not normalised to [0, 1].
XBig == Mat(1, INPUT_DIM, [i \in 1..1 |-> [j \in 1..INPUT_DIM |->
                 IF j % 3 = 0 THEN 0 ELSE 22 * Scale]])
\* A batch of no rows.
XNone == Mat(0, INPUT_DIM, [i \in 1..0 |-> [j \in 1..INPUT_DIM |->
                 0]])
\* A batch of the wrong feature dimension.
XShort == Mat(1, INPUT_DIM - 1, [i \in 1..1 |-> [j \in 1..INPUT_DIM - 1 |->
                 Scale]])

\* Targets for one row, for two rows and for none.
YOne == Mat(1, OUTPUT_DIM, [i \in 1..1 |-> [j \in 1..OUTPUT_DIM |->
                 2 * Scale]])
YTwo == Mat(2, OUTPUT_DIM, [i \in 1..2 |-> [j \in 1..OUTPUT_DIM |->
                 IF i = 1 THEN 2 * Scale ELSE IF j = 1 THEN 0 ELSE Scale]])
YNone == Mat(0, OUTPUT_DIM, [i \in 1..0 |-> [j \in 1..OUTPUT_DIM |->
                 0]])
\* Targets of a wrong output dimension.
YWide == Mat(1, OUTPUT_DIM + 1, [i \in 1..1 |-> [j \in 1..OUTPUT_DIM + 1 |->
                 Scale]])
YNarrow == Mat(1, OUTPUT_DIM - 1, [i \in 1..1 |-> [j \in 1..OUTPUT_DIM - 1 |->
                 Scale]])

\* The batches the host calls infer with.
InferInputs == {XOne, XBig, XNone, XShort}

\* The (x, y) pairs the host calls train with: matching batches, batches of
\* different sizes (1 against 2, 0 against 1, 0 against 2), empty batches,
\* and batches of a wrong feature or output dimension.
TrainInputs ==
    {<<XOne, YOne>>, <<XOne, YTwo>>, <<XNone, YNone>>, <<XNone, YOne>>,
     <<XNone, YTwo>>, <<XShort, YOne>>, <<XOne, YWide>>, <<XOne, YNarrow>>}

\* ------------------------------------------------------------ the host
\* ------------------------------------------------------------ one host
\* No second instance.
None == [status |-> "none"]

\* A thread that is in no call.  pc is 0 outside a call, k in 1..8 before
\* the k-th variable is assigned (train) or read (save), and 9 before the
\* call returns.
Idle == [pc |-> 0]

Init ==
    /\ \E seed \in Seeds : self = Construct(seed)
    /\ call = [op |-> "init"]
    /\ ret = [status |-> "ok"]
    /\ updates = 0
    /\ peer = None /\ peerRet = None
    /\ trainer = Idle /\ saver = Idle

\* The host takes what a call produced.
Returned(out) ==
    /\ self' = out.self
    /\ ret' = out.ret
    /\ updates' = IF out.self = self THEN updates ELSE updates + 1

Train(x, y) ==
    /\ updates < MaxTrain
    /\ Returned(TrainCall(self, x, y))
    /\ call' = [op |-> "train", x |-> x, y |-> y]
    /\ UNCHANGED <<peer, peerRet, trainer, saver>>

Infer(x) ==
    /\ Returned(InferCall(self, x))
    /\ call' = [op |-> "infer", x |-> x]
    /\ UNCHANGED <<peer, peerRet, trainer, saver>>

Save ==
    /\ Returned(SaveCall(self))
    /\ call' = [op |-> "save"]
    /\ UNCHANGED <<peer, peerRet, trainer, saver>>

Next ==
    \/ \E xy \in TrainInputs : Train(xy[1], xy[2])
    \/ \E x \in InferInputs : Infer(x)
    \/ Save

Spec == Init /\ [][Next]_vars

\* ------------------------------------------------------------ two instances
\* A host that builds two instances from the same initial values, calls
\* train on both with the same arguments, and calls train, infer and save
\* on the first one alone.
PairInputs == {<<XOne, YOne>>, <<XNone, YNone>>, <<XOne, YWide>>}

InitPair ==
    /\ \E seed \in Seeds : self = Construct(seed) /\ peer = Construct(seed)
    /\ call = [op |-> "init"]
    /\ ret = [status |-> "ok"]
    /\ peerRet = [status |-> "ok"]
    /\ updates = 0
    /\ trainer = Idle /\ saver = Idle

PeerReturned(out) ==
    /\ peer' = out.self
    /\ peerRet' = out.ret

PairTrain(x, y) ==
    /\ updates < MaxTrain
    /\ Returned(TrainCall(self, x, y))
    /\ PeerReturned(TrainCall(peer, x, y))
    /\ call' = [op |-> "pair_train", x |-> x, y |-> y]
    /\ UNCHANGED <<trainer, saver>>

NextPair ==
    \/ \E xy \in PairInputs : PairTrain(xy[1], xy[2])
    \/ \E xy \in PairInputs : Train(xy[1], xy[2])
    \/ Infer(XOne)
    \/ Save

SpecPair == InitPair /\ [][NextPair]_vars

\* ------------------------------------------------------------ two threads
\* One thread calls train while another calls save on the same instance.
\* Neither function takes a lock: train's eight assign_sub operations and
\* save's eight variable reads are separate operations, each atomic on its
\* own variable, taken here in the order the source writes them.

\* The most train calls the training thread makes in one behaviour.
MaxConcTrain == 1

ConcInputs == {<<XOne, YOne>>, <<XOne, YWide>>}

\* The mapping save builds from the eight values it read.
Snapshot(read) ==
    [w1 |-> read[1], b1 |-> read[2], w2 |-> read[3], b2 |-> read[4],
     w3 |-> read[5], b3 |-> read[6], w4 |-> read[7], b4 |-> read[8]]

\* train up to the gradients: the forward pass, the loss and tape.gradient.
\* out is what the whole call produces when nothing interleaves.
Started(m, tape, y, out) ==
    [pc |-> 1,
     grads |-> Gradients(m, tape, y, BroadcastDim(Rows(y), Rows(tape.out)),
                         BroadcastDim(Cols(y), Cols(tape.out))),
     call |-> [op |-> "train", x |-> tape.x, y |-> y],
     ret |-> out.ret, pre |-> m, post |-> out.self]

TrainEnters(x, y, out) ==
    IF out.ret.status # "ok"
    THEN /\ call' = [op |-> "train", x |-> x, y |-> y]
         /\ ret' = out.ret
         /\ UNCHANGED <<trainer, saver>>
    ELSE /\ trainer' = Started(self, ForwardTape(self, x), y, out)
         /\ saver' = IF saver.pc = 0 THEN saver
                      ELSE [saver EXCEPT !.overlap = TRUE]
         /\ UNCHANGED <<call, ret>>

TrainBegin(x, y) ==
    /\ trainer.pc = 0
    /\ updates < MaxConcTrain
    /\ TrainEnters(x, y, TrainCall(self, x, y))
    /\ UNCHANGED <<self, updates, peer, peerRet>>

TrainAssign ==
    /\ trainer.pc \in 1..Len(vars_to_train)
    /\ self' = [self EXCEPT ![vars_to_train[trainer.pc]] =
                    AssignSub(@, trainer.grads[trainer.pc], self.learning_rate)]
    /\ trainer' = [trainer EXCEPT !.pc = @ + 1]
    /\ UNCHANGED <<call, ret, updates, peer, peerRet, saver>>

TrainReturn ==
    /\ trainer.pc = Len(vars_to_train) + 1
    /\ call' = trainer.call
    /\ ret' = trainer.ret
    /\ updates' = updates + 1
    /\ trainer' = [trainer EXCEPT !.pc = 0]
    /\ UNCHANGED <<self, peer, peerRet, saver>>

SaveBegin ==
    /\ saver.pc = 0
    /\ saver' = [pc |-> 1, read |-> <<>>, overlap |-> trainer.pc # 0]
    /\ UNCHANGED <<self, call, ret, updates, peer, peerRet, trainer>>

SaveRead ==
    /\ saver.pc \in 1..Len(vars_to_train)
    /\ saver' = [saver EXCEPT !.pc = @ + 1,
                               !.read = Append(@, self[vars_to_train[saver.pc]])]
    /\ UNCHANGED <<self, call, ret, updates, peer, peerRet, trainer>>

SaveReturn ==
    /\ saver.pc = Len(vars_to_train) + 1
    /\ call' = [op |-> "save", overlap |-> saver.overlap]
    /\ ret' = [status |-> "ok", value |-> Snapshot(saver.read)]
    /\ saver' = Idle
    /\ UNCHANGED <<self, updates, peer, peerRet, trainer>>

NextConc ==
    \/ \E xy \in ConcInputs : TrainBegin(xy[1], xy[2])
    \/ TrainAssign
    \/ TrainReturn
    \/ SaveBegin
    \/ SaveRead
    \/ SaveReturn

SpecConc == Init /\ [][NextConc]_vars

\* ------------------------------------------------------------ claims
\* The step just taken was a call of train that returned a result.
TrainReturned == call'.op = "train" /\ ret'.status = "ok"

\* after is before with one SGD step applied to every tensor: each of the
\* eight tensors is its value in before minus 0.01 times its gradient, and
\* the gradients are the ones in grads.
OneStepFrom(before, after, grads) ==
    \A k \in 1..Len(vars_to_train) :
        after[vars_to_train[k]] =
            AssignSub(before[vars_to_train[k]], grads[k], LEARNING_RATE)

\* The gradients of the loss of (x, y) at the parameter values of m.
GradientsAt(m, x, y) ==
    Gradients(m, ForwardTape(m, x), y,
              BroadcastDim(Rows(y), Rows(x)), OUTPUT_DIM)

\* after is before with the one SGD step of train(x, y) applied, the
\* gradients taken at the parameter values of before.
OneStepOf(before, after, x, y) ==
    OneStepFrom(before, after, GradientsAt(before, x, y))

\* C1: every train call that returns applies exactly one SGD step: each of
\* the eight tensors after the call is its value before the call minus 0.01
\* times the gradient of the loss, all eight gradients taken at the values
\* before the call.
C1_OneSgdStep ==
    [][TrainReturned => OneStepOf(self, self', call'.x, call'.y)]_vars

\* C1 witness: two train calls have each applied an update, and every one of
\* the eight tensors differs from its initial value.
C1_Witness ==
    /\ call.op = "train" /\ ret.status = "ok" /\ updates = 2
    /\ \E seed \in Seeds :
          \A k \in 1..Len(vars_to_train) :
              self[vars_to_train[k]] # Construct(seed)[vars_to_train[k]]

\* value is what train returns for the targets y when the forward pass gave
\* prediction: that prediction, and its mean squared error against y.
ResultOf(value, prediction, y) ==
    /\ value.prediction = prediction
    /\ value.loss =
          MeanSquare(Residual(y, prediction,
                              BroadcastDim(Rows(y), Rows(prediction)),
                              OUTPUT_DIM))

\* value is what train(x, y) returns when its forward pass runs on the
\* parameter values of m: the output infer(x) returns on m, and the loss of
\* that output.
ResultAt(m, x, y, value) ==
    ResultOf(value, InferCall(m, x).ret.value.output, y)

\* C2: the loss and the prediction a train call returns are computed from
\* the parameters as they were before the call: the prediction is what
\* infer(x) returns on the instance before the call, and the loss is the
\* mean squared error of that prediction.
C2_ReturnsPreUpdate ==
    [][TrainReturned => ResultAt(self, call'.x, call'.y, ret'.value)]_vars

\* C2 witness: after a train call that changed the parameters, infer(x) on
\* the updated instance no longer returns the prediction the call returned.
C2_Witness ==
    /\ call.op = "train" /\ ret.status = "ok" /\ updates >= 1
    /\ InferCall(self, call.x).ret.value.output # ret.value.prediction

\* C3: a train call whose x has not 102 columns or whose y has not 2 columns
\* fails with a shape error and leaves every parameter as it was.
C3_WrongDimensionFails ==
    [][(call'.op = "train"
        /\ (Cols(call'.x) # INPUT_DIM \/ Cols(call'.y) # OUTPUT_DIM)) =>
          (ret'.status = "ShapeError" /\ self' = self)]_vars

\* C3 witness: after an update, a train call with targets of a wrong output
\* dimension has failed.
C3_Witness ==
    /\ call.op = "train" /\ updates >= 1
    /\ Cols(call.y) # OUTPUT_DIM
    /\ ret.status = "ShapeError"

\* C4, as claimed: a train call whose x and y have different batch sizes
\* fails with a shape error and leaves every parameter as it was.
C4_BatchMismatchFails ==
    [][(call'.op = "train"
        /\ Cols(call'.x) = INPUT_DIM /\ Cols(call'.y) = OUTPUT_DIM
        /\ Rows(call'.x) # Rows(call'.y)) =>
          (ret'.status = "ShapeError" /\ self' = self)]_vars

\* C5, as claimed: a train call with a batch of size 0 fails with an
\* InvalidInputError: it returns no result.
C5_EmptyBatchFails ==
    (call.op = "train" /\ Rows(call.x) = 0 /\ Rows(call.y) = 0
     /\ Cols(call.x) = INPUT_DIM /\ Cols(call.y) = OUTPUT_DIM) =>
        ret.status = "InvalidInputError"

\* C6: infer and save are read-only: a call of either leaves the eight
\* tensors and the learning rate as they were, and save returns the current
\* value of every tensor, so that two save calls with no train call in
\* between return equal mappings.
C6_ReadOnly ==
    [][(call'.op \in {"infer", "save"}) =>
          /\ self' = self
          /\ (call'.op = "save" =>
                 \A k \in 1..Len(vars_to_train) :
                     ret'.value[vars_to_train[k]] = self[vars_to_train[k]])]_vars

\* C6 witness: after two updates, infer has returned an output for a batch
\* of one row and the instance holds tensors that are not the initial ones.
C6_Witness ==
    /\ call.op = "infer" /\ ret.status = "ok" /\ updates >= 2
    /\ Rows(ret.value.output) = 1
    /\ \E seed \in Seeds : self.w4 # Construct(seed).w4

\* The eight tensors an instance holds.
Tensors(m) == Snapshot(<<m.w1, m.b1, m.w2, m.b2, m.w3, m.b3, m.w4, m.b4>>)

\* C7, as claimed: a save call that ran concurrently with a train call
\* returns either the complete parameter set from before that train call's
\* update or the complete parameter set after it, never a mixture.
C7_NoTornSnapshot ==
    (call.op = "save" /\ call.overlap) =>
        ret.value \in {Tensors(trainer.pre), Tensors(trainer.post)}

\* Every entry of the tensor t satisfies ok.
AllEntries(t, ok(_)) ==
    \A i \in 1..Rows(t) : \A j \in 1..Cols(t) : ok(t.v[i][j])

\* C8, as claimed: every entry of the output of infer lies strictly between
\* 0 and 1.
C8_OpenInterval ==
    (call.op = "infer" /\ ret.status = "ok") =>
        AllEntries(ret.value.output, LAMBDA v : 0 < v /\ v < Scale)

\* The shape every variable is created with.
DeclaredShape ==
    [w1 |-> <<102, 64>>, b1 |-> <<64>>, w2 |-> <<64, 64>>, b2 |-> <<64>>,
     w3 |-> <<64, 32>>, b3 |-> <<32>>, w4 |-> <<32, 2>>, b4 |-> <<2>>]

\* The tensor t holds exactly the entries its shape announces.
WellShaped(t) ==
    IF Len(t.shape) = 1
    THEN DOMAIN t.v = 1..t.shape[1]
    ELSE /\ DOMAIN t.v = 1..t.shape[1]
         /\ \A i \in 1..t.shape[1] : DOMAIN t.v[i] = 1..t.shape[2]

\* C9: in every reachable state the instance holds the eight tensors with
\* the declared shapes, the layer dimensions chain (each weight's column
\* count is the next weight's row count and its bias's length), the last
\* layer has 2 columns, and save returns exactly the eight names with these
\* shapes.
C9_Shapes ==
    /\ \A name \in DOMAIN DeclaredShape :
          self[name].shape = DeclaredShape[name] /\ WellShaped(self[name])
    /\ Rows(self.w1) = INPUT_DIM
    /\ Cols(self.w1) = Rows(self.w2) /\ self.b1.shape = <<Cols(self.w1)>>
    /\ Cols(self.w2) = Rows(self.w3) /\ self.b2.shape = <<Cols(self.w2)>>
    /\ Cols(self.w3) = Rows(self.w4) /\ self.b3.shape = <<Cols(self.w3)>>
    /\ Cols(self.w4) = OUTPUT_DIM /\ self.b4.shape = <<Cols(self.w4)>>
    /\ (call.op = "save" =>
          /\ DOMAIN ret.value = DOMAIN DeclaredShape
          /\ \A name \in DOMAIN DeclaredShape :
                ret.value[name].shape = DeclaredShape[name])

\* C9 witness: save has returned after MaxTrain updates.
C9_Witness ==
    /\ call.op = "save" /\ updates = MaxTrain
    /\ DOMAIN ret.value = {"w1", "b1", "w2", "b2", "w3", "b3", "w4", "b4"}

\* C10: the learning rate of an instance is 0.01 after every call, and a
\* train call made with the same arguments on two instances that hold equal
\* tensors leaves them holding equal tensors and returns equal results,
\* whatever calls either instance served before.
C10_NoHiddenState ==
    [][/\ self'.learning_rate = LEARNING_RATE
       /\ peer'.learning_rate = LEARNING_RATE
       /\ (call'.op = "pair_train" /\ Tensors(self) = Tensors(peer)) =>
             (Tensors(self') = Tensors(peer') /\ ret' = peerRet')]_vars

\* C10 witness: after two updates, a train call on both instances has
\* returned a loss, and the two instances hold equal tensors that are not
\* the initial ones.
C10_Witness ==
    /\ call.op = "pair_train" /\ ret.status = "ok" /\ updates >= 2
    /\ ~ret.value.loss.nan
    /\ Tensors(self) = Tensors(peer)
    /\ \E seed \in Seeds : self.w1 # Construct(seed).w1

====
